---- MODULE Spec2Model ----
(***************************************************************************)
(* Household financial projection engine: instrument formulas (assets,     *)
(* liabilities, income/expense), balance-sheet and cash-flow aggregation,  *)
(* life events and the FinancialModel orchestrator.                        *)
(*                                                                         *)
(* Money and rates are exact rationals <<numerator, denominator>> with a   *)
(* positive denominator, in lowest terms: the engine's arithmetic is       *)
(* real-valued, and rounding of binary floating point is not modelled.     *)
(***************************************************************************)
EXTENDS Integers, Sequences, FiniteSets, TLC

VARIABLES base, events, inflation_rate, work, last, terms,
          inst, target_year, out

vars == <<base, events, inflation_rate, work, last, terms,
          inst, target_year, out>>

(***************************************************************************)
(* Bounds of the model.                                                    *)
(***************************************************************************)
YearBase == 2025
YearSpan == 2
MaxEvents == 2
MaxTerm == 3

Years == YearBase .. (YearBase + YearSpan)
\* Target years of a prediction: one year before the first start year, and
\* far enough after the last one for every term to elapse.
TargetYears == (YearBase - 1) .. (YearBase + YearSpan + MaxTerm)

(***************************************************************************)
(* Exact rational arithmetic (Python float arithmetic, taken as real).     *)
(***************************************************************************)
Abs(n) == IF n < 0 THEN -n ELSE n

RECURSIVE Gcd(_, _)
Gcd(a, b) == IF b = 0 THEN a ELSE Gcd(b, a % b)

Norm(n, d) ==
    LET s == IF d < 0 THEN -1 ELSE 1
        g == Gcd(Abs(n), Abs(d))
    IN  IF n = 0 THEN <<0, 1>> ELSE <<(s * n) \div g, (s * d) \div g>>

R(n) == <<n, 1>>
RZero == <<0, 1>>
ROne == <<1, 1>>

\* Sums and products cancel common factors before multiplying, so that the
\* intermediate integers stay as small as the results.
RAdd(x, y) ==
    LET g == Gcd(x[2], y[2])
    IN  Norm(x[1] * (y[2] \div g) + y[1] * (x[2] \div g), (x[2] \div g) * y[2])
RNeg(x) == <<-x[1], x[2]>>
RSub(x, y) == RAdd(x, RNeg(y))
RMul(x, y) ==
    LET g1 == Gcd(Abs(x[1]), y[2])
        g2 == Gcd(Abs(y[1]), x[2])
    IN  IF x[1] = 0 \/ y[1] = 0 THEN <<0, 1>>
        ELSE <<(x[1] \div g1) * (y[1] \div g2), (x[2] \div g2) * (y[2] \div g1)>>
\* x / y for y # 0 (a zero divisor raises ZeroDivisionError in the program;
\* every caller below guards it or is covered by a Raises predicate).
RDiv(x, y) ==
    IF y[1] = 0 THEN <<1, 0>>
    ELSE RMul(x, IF y[1] < 0 THEN <<-y[2], -y[1]>> ELSE <<y[2], y[1]>>)
RSign(x) == IF x[1] > 0 THEN 1 ELSE IF x[1] < 0 THEN -1 ELSE 0
RLt(x, y) == RSign(RSub(x, y)) < 0
RLe(x, y) == RSign(RSub(x, y)) <= 0
RMax(x, y) == IF RLt(x, y) THEN y ELSE x

\* x ** k for an integer k >= 0; x ** 0 is 1 for every x, 0 included.
RECURSIVE RPowNat(_, _)
RPowNat(x, k) == IF k = 0 THEN ROne ELSE RMul(x, RPowNat(x, k - 1))

\* x ** k for any integer k; for k < 0 the base must not be 0.
RPow(x, k) == IF k >= 0 THEN RPowNat(x, k) ELSE RDiv(ROne, RPowNat(x, -k))

RECURSIVE RSum(_)
RSum(s) == IF s = <<>> THEN RZero ELSE RAdd(Head(s), RSum(Tail(s)))

(***************************************************************************)
(* asset.py                                                                *)
(***************************************************************************)
\* growth + level annual contribution, shared by Savings, ManagedFund, Shares
GrowthWithContribution(initial_value, rate, contribution, time) ==
    LET fv_principal == RMul(initial_value, RPow(RAdd(ROne, rate), time))
        fv_contrib ==
            IF rate = RZero
            THEN RMul(contribution, R(time))
            ELSE RMul(contribution,
                      RDiv(RSub(RPow(RAdd(ROne, rate), time), ROne), rate))
    IN  RAdd(fv_principal, fv_contrib)

\* Savings.predict with the inception test off by one (<= for <)
SavingsPredictOffByOne(a, y) ==
    IF y <= a.start_year THEN RZero
    ELSE GrowthWithContribution(a.initial_value, a.interest_rate,
                                a.annual_contribution, y - a.start_year)

SavingsPredict(a, y) ==
    IF y < a.start_year THEN RZero
    ELSE GrowthWithContribution(a.initial_value, a.interest_rate,
                                a.annual_contribution, y - a.start_year)

ManagedFundNetRate(a) ==
    LET fee_cut == RAdd(a.management_fee_rate, a.performance_fee_rate)
    IN  RSub(RMul(RAdd(ROne, a.gross_return_rate), RSub(ROne, fee_cut)), ROne)

ManagedFundPredict(a, y) ==
    IF y < a.start_year THEN RZero
    ELSE GrowthWithContribution(a.initial_value, ManagedFundNetRate(a),
                                a.annual_contribution, y - a.start_year)

SharesPredict(a, y) ==
    IF y < a.start_year THEN RZero
    ELSE LET effective_rate ==
                 RAdd(a.annual_growth_rate,
                      IF a.reinvest_dividends THEN a.dividend_yield ELSE RZero)
         IN  GrowthWithContribution(a.initial_value, effective_rate,
                                    a.annual_contribution, y - a.start_year)

PropertyPredict(a, y) ==
    IF y < a.start_year THEN RZero
    ELSE RMul(a.initial_value,
              RPow(RAdd(ROne, a.annual_appreciation), y - a.start_year))

SuperNetInvestmentRate(a) ==
    RSub(RMul(RAdd(ROne, a.gross_return_rate), RSub(ROne, a.fee_rate)), ROne)

\* the loop body of Superannuation.predict, run `years` times
RECURSIVE SuperLoop(_, _, _, _, _)
SuperLoop(a, years, balance, curr_salary, curr_personal) ==
    IF years <= 0 THEN balance
    ELSE LET grown == RMul(balance, RAdd(ROne, SuperNetInvestmentRate(a)))
             employer == RMul(curr_salary, a.employer_sg_rate)
             contrib_gross == RAdd(employer, curr_personal)
             contrib_net == RMul(contrib_gross,
                                 RSub(ROne, a.contribution_tax_rate))
         IN  SuperLoop(a, years - 1, RAdd(grown, contrib_net),
                       RMul(curr_salary, RAdd(ROne, a.salary_growth)),
                       RMul(curr_personal, RAdd(ROne, a.personal_indexation)))

SuperannuationPredict(a, y) ==
    IF y < a.start_year THEN RZero
    ELSE SuperLoop(a, y - a.start_year, a.initial_value, a.salary,
                   a.personal_contribution)

LifestyleAssetPredict(a, y) ==
    IF y < a.start_year THEN RZero
    ELSE RMul(a.initial_value,
              RPow(RSub(ROne, a.depreciation_rate), y - a.start_year))

AssetKinds == {"Savings", "ManagedFund", "Shares", "Property",
               "Superannuation", "LifestyleAsset"}

\* asset.predict(target_year), dispatched on the variant
AssetPredict(a, y) ==
    CASE a.kind = "Savings" -> SavingsPredict(a, y)
      [] a.kind = "ManagedFund" -> ManagedFundPredict(a, y)
      [] a.kind = "Shares" -> SharesPredict(a, y)
      [] a.kind = "Property" -> PropertyPredict(a, y)
      [] a.kind = "Superannuation" -> SuperannuationPredict(a, y)
      [] a.kind = "LifestyleAsset" -> LifestyleAssetPredict(a, y)

(***************************************************************************)
(* liability.py                                                            *)
(***************************************************************************)
\* HomeLoan.annual_payment raises ZeroDivisionError: 0.0 ** -n when
\* 1 + r = 0, or a zero denominator when (1 + r) ** -n = 1.
AnnualPaymentRaises(l) ==
    /\ ~(l.term_years <= 0 \/ RLe(l.initial_value, RZero))
    /\ l.interest_rate # RZero
    /\ \/ RAdd(ROne, l.interest_rate) = RZero
       \/ RPow(RAdd(ROne, l.interest_rate), -l.term_years) = ROne

annual_payment(l) ==
    LET P == l.initial_value
        r == l.interest_rate
        n == l.term_years
    IN  IF n <= 0 \/ RLe(P, RZero) THEN RZero
        ELSE IF r = RZero THEN RDiv(P, R(n))
        ELSE RDiv(RMul(P, r), RSub(ROne, RPow(RAdd(ROne, r), -n)))

\* HomeLoan.predict reaches annual_payment only when k < n
HomeLoanPredictRaises(l, y) ==
    /\ y >= l.start_year
    /\ y - l.start_year + 1 < l.term_years
    /\ AnnualPaymentRaises(l)

HomeLoanPredict(l, y) ==
    IF y < l.start_year THEN RZero
    ELSE LET P == l.initial_value
             r == l.interest_rate
             n == l.term_years
             k == y - l.start_year + 1
             pmt == annual_payment(l)
             growth == RPow(RAdd(ROne, r), k)
             balance == RSub(RMul(P, growth),
                             RMul(pmt, RDiv(RSub(growth, ROne), r)))
         IN  IF k >= n THEN RZero
             ELSE IF r = RZero THEN RMax(RZero, RSub(P, RMul(pmt, R(k))))
             ELSE RMax(RZero, balance)

\* OtherLiability.predict's loop without the early-payoff return
RECURSIVE OtherLoopCarry(_, _, _)
OtherLoopCarry(l, years, balance) ==
    IF years <= 0 THEN balance
    ELSE OtherLoopCarry(l, years - 1,
                        RSub(RMul(balance, RAdd(ROne, l.interest_rate)),
                             l.annual_repayment))

\* the loop of OtherLiability.predict, with `years` iterations left
RECURSIVE OtherLoop(_, _, _)
OtherLoop(l, years, balance) ==
    IF years <= 0 THEN balance
    ELSE LET b == RSub(RMul(balance, RAdd(ROne, l.interest_rate)),
                       l.annual_repayment)
         IN  IF RLe(b, RZero) THEN RZero ELSE OtherLoop(l, years - 1, b)

OtherLiabilityPredict(l, y) ==
    IF y < l.start_year THEN RZero
    ELSE OtherLoop(l, y - l.start_year, l.initial_value)

LiabilityKinds == {"HomeLoan", "OtherLiability"}

LiabilityPredictRaises(l, y) ==
    l.kind = "HomeLoan" /\ HomeLoanPredictRaises(l, y)

\* liability.predict(target_year), dispatched on the variant
LiabilityPredict(l, y) ==
    CASE l.kind = "HomeLoan" -> HomeLoanPredict(l, y)
      [] l.kind = "OtherLiability" -> OtherLiabilityPredict(l, y)

(***************************************************************************)
(* cash_flow.py: Income and Expense.  end_year is <<>> for None and <<y>>  *)
(* for the year y.                                                         *)
(***************************************************************************)
IncomeIsActive(c, year) ==
    IF year < c.start_year THEN FALSE
    ELSE IF c.end_year # <<>> /\ year > c.end_year[1] THEN FALSE
    ELSE TRUE

IncomePredict(c, y) ==
    IF ~IncomeIsActive(c, y) THEN RZero
    ELSE RMul(c.amount, RPow(RAdd(ROne, c.annual_rate), y - c.start_year))

\* Expense.is_active with an exclusive end year (>= for >)
ExpenseIsActiveExclusive(c, year) ==
    IF year < c.start_year THEN FALSE
    ELSE IF c.end_year # <<>> /\ year >= c.end_year[1] THEN FALSE
    ELSE TRUE

ExpenseIsActive(c, year) ==
    IF year < c.start_year THEN FALSE
    ELSE IF c.end_year # <<>> /\ year > c.end_year[1] THEN FALSE
    ELSE TRUE

ExpensePredict(c, y) ==
    IF ~ExpenseIsActive(c, y) THEN RZero
    ELSE RMul(c.amount, RPow(RAdd(ROne, c.annual_rate), y - c.start_year))

(***************************************************************************)
(* Parameter values the instruments are drawn from.                        *)
(***************************************************************************)
Half == <<1, 2>>
AssetRates == {R(-1), RZero, Half}
LoanRates == {R(-2), R(-1), <<-1, 2>>, RZero, Half, ROne}
CashRates == {R(-1), <<-1, 2>>, RZero, Half}
Fees == {RZero, Half}
AssetValues == {RZero, R(100)}
LoanValues == {R(-100), RZero, R(100)}
Contributions == {RZero, R(10)}
Repayments == {R(-10), RZero, R(60)}
Amounts == {R(-100), RZero, R(100)}
Terms == 0 .. MaxTerm
EndYears == {<<>>} \cup {<<y>> : y \in (YearBase - 1) .. (YearBase + YearSpan)}

SavingsSet ==
    [kind : {"Savings"}, initial_value : AssetValues, start_year : Years,
     interest_rate : AssetRates, annual_contribution : Contributions]
ManagedFundSet ==
    [kind : {"ManagedFund"}, initial_value : AssetValues, start_year : Years,
     gross_return_rate : AssetRates, management_fee_rate : Fees,
     performance_fee_rate : Fees, annual_contribution : Contributions]
SharesSet ==
    [kind : {"Shares"}, initial_value : AssetValues, start_year : Years,
     annual_growth_rate : AssetRates, dividend_yield : {RZero, Half},
     annual_contribution : Contributions, reinvest_dividends : BOOLEAN]
PropertySet ==
    [kind : {"Property"}, initial_value : AssetValues, start_year : Years,
     annual_appreciation : AssetRates]
SuperannuationSet ==
    [kind : {"Superannuation"}, initial_value : AssetValues,
     start_year : Years, salary : {RZero, R(1000)},
     gross_return_rate : {RZero, Half}, fee_rate : Fees,
     salary_growth : {RZero, Half}, employer_sg_rate : {RZero, Half},
     personal_contribution : Contributions,
     personal_indexation : {RZero, Half},
     contribution_tax_rate : {RZero, Half}]
LifestyleAssetSet ==
    [kind : {"LifestyleAsset"}, initial_value : AssetValues,
     start_year : Years, depreciation_rate : AssetRates]
HomeLoanSet ==
    [kind : {"HomeLoan"}, initial_value : LoanValues, start_year : Years,
     interest_rate : LoanRates, term_years : Terms]
OtherLiabilitySet ==
    [kind : {"OtherLiability"}, initial_value : LoanValues,
     start_year : Years, interest_rate : LoanRates,
     annual_repayment : Repayments]
IncomeSet ==
    [kind : {"Income"}, name : {"Salary"}, amount : Amounts, annual_rate : CashRates,
     start_year : Years, end_year : EndYears]
ExpenseSet ==
    [kind : {"Expense"}, name : {"Living Expenses"}, amount : Amounts, annual_rate : CashRates,
     start_year : Years, end_year : EndYears]

Assets == SavingsSet \cup ManagedFundSet \cup SharesSet \cup PropertySet
          \cup SuperannuationSet \cup LifestyleAssetSet
Liabilities == HomeLoanSet \cup OtherLiabilitySet
Instruments == Assets \cup Liabilities \cup IncomeSet \cup ExpenseSet

NoOutput == [status |-> "none", value |-> RZero]
Returned(v) == [status |-> "returned", value |-> v]
Raised == [status |-> "raised", value |-> RZero]

(***************************************************************************)
(* balance_sheet.py and cash_flow.py: aggregation.  A model is the record  *)
(* of the four instrument lists [assets, liabilities, incomes, expenses].  *)
(***************************************************************************)
NoModel == [assets |-> <<>>, liabilities |-> <<>>,
            incomes |-> <<>>, expenses |-> <<>>]

total_assets(m, y) ==
    RSum([i \in 1 .. Len(m.assets) |-> AssetPredict(m.assets[i], y)])

total_liabilities(m, y) ==
    RSum([i \in 1 .. Len(m.liabilities) |->
              LiabilityPredict(m.liabilities[i], y)])

net_worth(m, y) == RSub(total_assets(m, y), total_liabilities(m, y))

inflow(m, y) ==
    RSum([i \in 1 .. Len(m.incomes) |-> IncomePredict(m.incomes[i], y)])

outflow(m, y) ==
    RSum([i \in 1 .. Len(m.expenses) |-> ExpensePredict(m.expenses[i], y)])

\* range(start_year, end_year): the last year left out
YearRangeExclusive(start_year, end_year) ==
    [i \in 1 .. (IF end_year <= start_year THEN 0
                 ELSE end_year - start_year) |-> start_year + i - 1]

\* range(start_year, end_year + 1) as a sequence; empty when end < start
YearRange(start_year, end_year) ==
    [i \in 1 .. (IF end_year < start_year THEN 0
                 ELSE end_year - start_year + 1) |-> start_year + i - 1]

\* BalanceSheet.project: one record per year of the range
BsProjection(m, start_year, end_year) ==
    LET ys == YearRange(start_year, end_year)
    IN  [i \in 1 .. Len(ys) |->
            [year |-> ys[i],
             total_assets |-> total_assets(m, ys[i]),
             total_liabilities |-> total_liabilities(m, ys[i]),
             net_worth |-> net_worth(m, ys[i])]]

\* a liability's predict raises in some year of the range
BsProjectionRaises(m, start_year, end_year) ==
    \E y \in start_year .. end_year :
        \E i \in 1 .. Len(m.liabilities) :
            LiabilityPredictRaises(m.liabilities[i], y)

\* CashFlow.project: one record per year of the range
CfProjection(m, start_year, end_year) ==
    LET ys == YearRange(start_year, end_year)
    IN  [i \in 1 .. Len(ys) |->
            [year |-> ys[i],
             inflow |-> inflow(m, ys[i]),
             outflow |-> outflow(m, ys[i]),
             net_flow |-> RSub(inflow(m, ys[i]), outflow(m, ys[i]))]]

(***************************************************************************)
(* life_event.py                                                           *)
(***************************************************************************)
DefaultExpenseRate == <<1, 50>>

HomePurchaseLoan(e) ==
    [kind |-> "HomeLoan",
     initial_value |-> RMax(RSub(e.purchase_price, e.deposit), RZero),
     start_year |-> e.start_year,
     interest_rate |-> e.mortgage_rate,
     term_years |-> e.mortgage_term_years]

\* the repayments running one year past the term
MortgageEndYearPastTerm(e) == e.start_year + e.mortgage_term_years

\* end_year of the "Mortgage repayment" expense
MortgageEndYear(e) == e.start_year + e.mortgage_term_years - 1

HomePurchaseApply(e, m) ==
    LET property ==
            [kind |-> "Property", initial_value |-> e.purchase_price,
             start_year |-> e.start_year,
             annual_appreciation |-> e.appreciation_rate]
        deposit ==
            IF RLt(RZero, e.deposit)
            THEN <<[kind |-> "Expense", name |-> "Deposit",
                    amount |-> e.deposit, start_year |-> e.start_year,
                    annual_rate |-> DefaultExpenseRate,
                    end_year |-> <<e.start_year>>]>>
            ELSE <<>>
        home_loan == HomePurchaseLoan(e)
        has_loan == RLt(RZero, home_loan.initial_value)
        repayment ==
            IF has_loan
            THEN <<[kind |-> "Expense", name |-> "Mortgage repayment",
                    amount |-> annual_payment(home_loan),
                    start_year |-> e.start_year,
                    annual_rate |-> RZero,
                    end_year |-> <<MortgageEndYear(e)>>]>>
            ELSE <<>>
        maintenance ==
            IF RLt(RZero, e.maintenance_cost)
            THEN <<[kind |-> "Expense", name |-> "Property maintenance",
                    amount |-> e.maintenance_cost,
                    start_year |-> e.start_year,
                    annual_rate |-> e.maintenance_growth,
                    end_year |-> <<>>]>>
            ELSE <<>>
    IN  [m EXCEPT
            !.assets = Append(@, property),
            !.liabilities = IF has_loan THEN Append(@, home_loan) ELSE @,
            !.expenses = @ \o deposit \o repayment \o maintenance]

\* what HomePurchase.apply has appended when annual_payment() raises: the
\* property, the deposit and the loan, and no repayment or maintenance
HomePurchaseApplyUntilRaise(e, m) ==
    [m EXCEPT
        !.assets = Append(@, [kind |-> "Property",
                              initial_value |-> e.purchase_price,
                              start_year |-> e.start_year,
                              annual_appreciation |-> e.appreciation_rate]),
        !.liabilities = Append(@, HomePurchaseLoan(e)),
        !.expenses =
            IF RLt(RZero, e.deposit)
            THEN Append(@, [kind |-> "Expense", name |-> "Deposit",
                            amount |-> e.deposit,
                            start_year |-> e.start_year,
                            annual_rate |-> DefaultExpenseRate,
                            end_year |-> <<e.start_year>>])
            ELSE @]

\* the end year without the clamp
ChildBirthEndYearUnclamped(e) == e.start_year + e.years_of_expense - 1

\* end_year = self.start_year + max(self.years_of_expense - 1, 0)
ChildBirthEndYear(e) ==
    e.start_year
    + (IF e.years_of_expense - 1 > 0 THEN e.years_of_expense - 1 ELSE 0)

ChildBirthApply(e, m) ==
    [m EXCEPT
        !.expenses =
            Append(@, [kind |-> "Expense",
                       name |-> "Child related expenses",
                       amount |-> e.annual_cost,
                       start_year |-> e.start_year,
                       annual_rate |-> e.expense_growth,
                       end_year |-> <<ChildBirthEndYear(e)>>])]

InheritanceApply(e, m) ==
    [m EXCEPT
        !.assets =
            Append(@, [kind |-> "Savings", initial_value |-> e.amount,
                       start_year |-> e.start_year,
                       interest_rate |-> e.savings_interest_rate,
                       annual_contribution |-> RZero]),
        !.incomes =
            IF e.add_to_cash_flow
            THEN Append(@, [kind |-> "Income", name |-> "Inheritance",
                            amount |-> e.amount, annual_rate |-> RZero,
                            start_year |-> e.start_year,
                            end_year |-> <<e.start_year>>])
            ELSE @]

\* event.apply(balance_sheet, cash_flow), dispatched on the variant
Apply(e, m) ==
    CASE e.kind = "HomePurchase" -> HomePurchaseApply(e, m)
      [] e.kind = "ChildBirth" -> ChildBirthApply(e, m)
      [] e.kind = "Inheritance" -> InheritanceApply(e, m)

\* HomePurchase.apply calls home_loan.annual_payment() when there is a loan
ApplyRaises(e) ==
    /\ e.kind = "HomePurchase"
    /\ RLt(RZero, HomePurchaseLoan(e).initial_value)
    /\ AnnualPaymentRaises(HomePurchaseLoan(e))

(***************************************************************************)
(* financial_model.py                                                      *)
(***************************************************************************)
\* insertion of e into a list sorted by start_year, before its equals:
\* events of one year come out in reverse input order
RECURSIVE InsertBeforeEquals(_, _)
InsertBeforeEquals(e, s) ==
    IF s = <<>> THEN <<e>>
    ELSE IF e.start_year <= Head(s).start_year THEN <<e>> \o s
    ELSE <<Head(s)>> \o InsertBeforeEquals(e, Tail(s))

\* insertion of e into a list sorted by start_year, after its equals
RECURSIVE InsertByStartYear(_, _)
InsertByStartYear(e, s) ==
    IF s = <<>> THEN <<e>>
    ELSE IF e.start_year < Head(s).start_year THEN <<e>> \o s
    ELSE <<Head(s)>> \o InsertByStartYear(e, Tail(s))

RECURSIVE SortFrom(_, _)
SortFrom(evs, acc) ==
    IF evs = <<>> THEN acc
    ELSE SortFrom(Tail(evs), InsertByStartYear(Head(evs), acc))

\* the events in input order: sorted() left out
Unsorted(evs) == evs

\* sorted(self.events, key=lambda e: e.start_year): a stable sort
SortedByStartYear(evs) == SortFrom(evs, <<>>)

\* the loop's filter with events before the range skipped as well
SkippedOutsideRange(e, start_year, end_year) ==
    e.start_year > end_year \/ e.start_year < start_year

\* `if event.start_year > end_year: continue`
Skipped(e, start_year, end_year) == e.start_year > end_year

\* the loop of _components_with_events over the sorted events
RECURSIVE ApplyEvents(_, _, _, _)
ApplyEvents(evs, start_year, end_year, acc) ==
    IF evs = <<>> THEN acc
    ELSE LET e == Head(evs)
         IN  IF Skipped(e, start_year, end_year)
             THEN ApplyEvents(Tail(evs), start_year, end_year, acc)
             ELSE ApplyEvents(Tail(evs), start_year, end_year,
                              [model |-> Apply(e, acc.model),
                               active |-> Append(acc.active, e)])

\* _components_with_events: the working copy and the active events
ComponentsWithEvents(b, evs, start_year, end_year) ==
    ApplyEvents(SortedByStartYear(evs), start_year, end_year,
                [model |-> b, active |-> <<>>])

\* the events' appends land in the base model itself: no deepcopy
BaseAliased(b, w) == w

\* the base model after the events were applied to the working copy w:
\* deepcopy detaches the copy, so the base keeps its lists
BaseAfterEvents(b, w) == b

\* some applied event's apply raises
ComponentsRaise(evs, start_year, end_year) ==
    \E i \in 1 .. Len(evs) :
        ~Skipped(evs[i], start_year, end_year) /\ ApplyRaises(evs[i])

NoWork == [model |-> NoModel, active |-> <<>>]
NoCall == [op |-> "none", start_year |-> YearBase, end_year |-> YearBase,
           status |-> "none", again |-> FALSE, bs |-> <<>>, cf |-> <<>>]
NoTerms == [status |-> "none", rate |-> <<>>, entries |-> <<>>]

\* the record of a call: its arguments, whether it repeats the arguments of
\* the call before it, and what it returned
Call(op, start_year, end_year, status, bs, cf) ==
    [op |-> op, start_year |-> start_year, end_year |-> end_year,
     status |-> status,
     again |-> (last.op = op /\ last.start_year = start_year
                /\ last.end_year = end_year),
     bs |-> bs, cf |-> cf]

\* FinancialModel.model(start_year, end_year)
Model(start_year, end_year) ==
    LET comps == ComponentsWithEvents(base, events, start_year, end_year)
        raises == \/ ComponentsRaise(events, start_year, end_year)
                  \/ BsProjectionRaises(comps.model, start_year, end_year)
    IN  /\ work' = IF raises THEN NoWork ELSE comps
        /\ base' = BaseAfterEvents(base, comps.model)
        /\ last' = IF raises
                   THEN Call("model", start_year, end_year, "raised",
                             <<>>, <<>>)
                   ELSE Call("model", start_year, end_year, "returned",
                             BsProjection(comps.model, start_year, end_year),
                             CfProjection(comps.model, start_year, end_year))
        /\ UNCHANGED <<events, inflation_rate, terms, inst, target_year, out>>

\* self.balance_sheet.project(start_year, end_year) on the base model
BsProject(start_year, end_year) ==
    /\ last' = IF BsProjectionRaises(base, start_year, end_year)
               THEN Call("bs_project", start_year, end_year, "raised",
                         <<>>, <<>>)
               ELSE Call("bs_project", start_year, end_year, "returned",
                         BsProjection(base, start_year, end_year), <<>>)
    /\ work' = NoWork
    /\ UNCHANGED <<base, events, inflation_rate, terms,
                   inst, target_year, out>>

\* self.cash_flow.project(start_year, end_year) on the base model
CfProject(start_year, end_year) ==
    /\ last' = Call("cf_project", start_year, end_year, "returned",
                    <<>>, CfProjection(base, start_year, end_year))
    /\ work' = NoWork
    /\ UNCHANGED <<base, events, inflation_rate, terms,
                   inst, target_year, out>>

\* FinancialModel.set_inflation
SetInflation(rate) ==
    /\ inflation_rate' = rate
    /\ UNCHANGED <<base, events, work, last, terms, inst, target_year, out>>

BsKeys == {"total_assets", "total_liabilities", "net_worth"}
CfKeys == {"inflow", "outflow", "net_flow"}

\* f"{key}_real"
RealKey(key) ==
    CASE key = "total_assets" -> "total_assets_real"
      [] key = "total_liabilities" -> "total_liabilities_real"
      [] key = "net_worth" -> "net_worth_real"
      [] key = "inflow" -> "inflow_real"
      [] key = "outflow" -> "outflow_real"
      [] key = "net_flow" -> "net_flow_real"

\* the body of the loop over the entries: the entry with a <key>_real
\* field added for every key of `keys` it holds
AdjustEntry(entry, base_year, keys, rate_base) ==
    LET factor == RPow(rate_base, entry.year - base_year)
        present == {k \in keys : k \in DOMAIN entry}
        real == {RealKey(k) : k \in present}
    IN  [f \in (DOMAIN entry) \cup real |->
            IF f \in real
            THEN RDiv(entry[CHOOSE k \in present : RealKey(k) = f], factor)
            ELSE entry[f]]

\* _add_real_terms(projection, base_year, keys) with self.inflation_rate =
\* rate (<<>> while set_inflation was never called: the attribute is unset)
RealTerms(projection, base_year, keys, rate) ==
    IF projection = <<>>
    THEN [status |-> "returned", rate |-> rate, entries |-> <<>>]
    ELSE IF rate = <<>>
    THEN [status |-> "AttributeError", rate |-> rate, entries |-> <<>>]
    ELSE IF rate = RZero
    THEN [status |-> "returned", rate |-> rate, entries |-> projection]
    ELSE IF RLe(RAdd(ROne, rate), RZero)
    THEN [status |-> "ValueError", rate |-> rate, entries |-> <<>>]
    ELSE [status |-> "returned", rate |-> rate,
          entries |-> [i \in 1 .. Len(projection) |->
                          AdjustEntry(projection[i], base_year, keys,
                                      RAdd(ROne, rate))]]

\* self._add_real_terms on the projection the last call returned
AddRealTermsBs(base_year) ==
    /\ terms' = RealTerms(last.bs, base_year, BsKeys, inflation_rate)
    /\ UNCHANGED <<base, events, inflation_rate, work, last,
                   inst, target_year, out>>

AddRealTermsCf(base_year) ==
    /\ terms' = RealTerms(last.cf, base_year, CfKeys, inflation_rate)
    /\ UNCHANGED <<base, events, inflation_rate, work, last,
                   inst, target_year, out>>

(***************************************************************************)
(* The base models and life events a FinancialModel is constructed from.   *)
(***************************************************************************)
SampleBase ==
    [assets |-> <<[kind |-> "Savings", initial_value |-> R(100),
                   start_year |-> YearBase, interest_rate |-> Half,
                   annual_contribution |-> R(10)]>>,
     liabilities |-> <<[kind |-> "OtherLiability", initial_value |-> R(100),
                        start_year |-> YearBase, interest_rate |-> Half,
                        annual_repayment |-> R(60)]>>,
     incomes |-> <<[kind |-> "Income", name |-> "Salary",
                    amount |-> R(100), annual_rate |-> RZero,
                    start_year |-> YearBase, end_year |-> <<>>]>>,
     expenses |-> <<[kind |-> "Expense", name |-> "Vacation Expenses",
                     amount |-> R(40), annual_rate |-> RZero,
                     start_year |-> YearBase + 1,
                     end_year |-> <<YearBase + 1>>]>>]

BaseModels == {NoModel, SampleBase}

HomeEvent ==
    [kind |-> "HomePurchase", start_year |-> YearBase,
     name |-> "First Home Purchase", purchase_price |-> R(200),
     appreciation_rate |-> RZero, mortgage_rate |-> Half,
     mortgage_term_years |-> 2, deposit |-> R(50),
     maintenance_cost |-> R(10), maintenance_growth |-> RZero]

ChildEvent ==
    [kind |-> "ChildBirth", start_year |-> YearBase, name |-> "First Child",
     annual_cost |-> R(30), years_of_expense |-> 2,
     expense_growth |-> RZero]

InheritanceEvent ==
    [kind |-> "Inheritance", start_year |-> YearBase + YearSpan,
     name |-> "Family Inheritance", amount |-> R(100),
     savings_interest_rate |-> RZero, add_to_cash_flow |-> TRUE]

EventPool == {HomeEvent, ChildEvent, InheritanceEvent}

EventLists(n) == UNION {[1 .. k -> EventPool] : k \in 0 .. n}

InflationRates == {R(-2), R(-1), <<-1, 2>>, RZero, Half}

NoInstrument == [kind |-> "none", start_year |-> YearBase]

(***************************************************************************)
(* The orchestrator: a FinancialModel is constructed, then model is called *)
(* any number of times.                                                    *)
(***************************************************************************)
Init ==
    /\ base \in BaseModels
    /\ events \in EventLists(MaxEvents)
    /\ inflation_rate = <<>>
    /\ work = NoWork
    /\ last = NoCall
    /\ terms = NoTerms
    /\ inst = NoInstrument
    /\ target_year = YearBase
    /\ out = NoOutput

Next == \E start_year \in Years, end_year \in Years :
            Model(start_year, end_year)

Spec == Init /\ [][Next]_vars

(***************************************************************************)
(* Projection calls: model, BalanceSheet.project and CashFlow.project.     *)
(***************************************************************************)
InitProject ==
    /\ base \in BaseModels
    /\ events \in EventLists(1)
    /\ inflation_rate = <<>>
    /\ work = NoWork
    /\ last = NoCall
    /\ terms = NoTerms
    /\ inst = NoInstrument
    /\ target_year = YearBase
    /\ out = NoOutput

NextProject ==
    \E start_year \in Years, end_year \in Years :
        \/ Model(start_year, end_year)
        \/ BsProject(start_year, end_year)
        \/ CfProject(start_year, end_year)

SpecProject == InitProject /\ [][NextProject]_vars

(***************************************************************************)
(* The inflation-adjustment pass over the projections of a sample model.   *)
(***************************************************************************)
SampleProjections ==
    {[op |-> "project", start_year |-> s, end_year |-> e,
      status |-> "returned", again |-> FALSE,
      bs |-> BsProjection(SampleBase, s, e),
      cf |-> CfProjection(SampleBase, s, e)] : s \in Years, e \in Years}

InitRealTerms ==
    /\ base = SampleBase
    /\ events = <<>>
    /\ inflation_rate = <<>>
    /\ work = NoWork
    /\ last \in SampleProjections
    /\ terms = NoTerms
    /\ inst = NoInstrument
    /\ target_year = YearBase
    /\ out = NoOutput

NextRealTerms ==
    \/ \E rate \in InflationRates : SetInflation(rate)
    \/ \E base_year \in Years :
            \/ AddRealTermsBs(base_year)
            \/ AddRealTermsCf(base_year)

SpecRealTerms == InitRealTerms /\ [][NextRealTerms]_vars

(***************************************************************************)
(* Instrument formulas as a state machine: an instrument is constructed,   *)
(* then predict(target_year) is called on it any number of times.          *)
(***************************************************************************)
InitFormulas ==
    /\ inst \in Instruments
    /\ target_year = inst.start_year
    /\ out = NoOutput
    /\ base = NoModel
    /\ events = <<>>
    /\ inflation_rate = <<>>
    /\ work = NoWork
    /\ last = NoCall
    /\ terms = NoTerms

PredictAsset(y) ==
    /\ inst.kind \in AssetKinds
    /\ target_year' = y
    /\ out' = Returned(AssetPredict(inst, y))
    /\ UNCHANGED <<base, events, inflation_rate, work, last, terms, inst>>

PredictLiability(y) ==
    /\ inst.kind \in LiabilityKinds
    /\ target_year' = y
    /\ out' = IF LiabilityPredictRaises(inst, y) THEN Raised
              ELSE Returned(LiabilityPredict(inst, y))
    /\ UNCHANGED <<base, events, inflation_rate, work, last, terms, inst>>

PredictIncome(y) ==
    /\ inst.kind = "Income"
    /\ target_year' = y
    /\ out' = Returned(IncomePredict(inst, y))
    /\ UNCHANGED <<base, events, inflation_rate, work, last, terms, inst>>

PredictExpense(y) ==
    /\ inst.kind = "Expense"
    /\ target_year' = y
    /\ out' = Returned(ExpensePredict(inst, y))
    /\ UNCHANGED <<base, events, inflation_rate, work, last, terms, inst>>

NextFormulas ==
    \E y \in TargetYears :
        \/ PredictAsset(y)
        \/ PredictLiability(y)
        \/ PredictIncome(y)
        \/ PredictExpense(y)

SpecFormulas == InitFormulas /\ [][NextFormulas]_vars

(***************************************************************************)
(* One life event applied to a balance sheet and a cash flow: the lists    *)
(* start as the base model's (base keeps what they held before the call),  *)
(* then event.apply(balance_sheet, cash_flow) is called once.              *)
(***************************************************************************)
HomePurchaseSet ==
    [kind : {"HomePurchase"}, start_year : Years,
     name : {"First Home Purchase"},
     purchase_price : {RZero, R(200)}, appreciation_rate : {RZero},
     mortgage_rate : {R(-1), RZero, Half}, mortgage_term_years : Terms,
     deposit : {RZero, R(50), R(200)},
     maintenance_cost : {RZero, R(10)}, maintenance_growth : {RZero, Half}]

ChildBirthSet ==
    [kind : {"ChildBirth"}, start_year : Years, name : {"First Child"},
     annual_cost : {R(30)}, years_of_expense : (-1) .. MaxTerm,
     expense_growth : {RZero, Half}]

InheritanceSet ==
    [kind : {"Inheritance"}, start_year : Years,
     name : {"Family Inheritance"}, amount : {R(100)},
     savings_interest_rate : {RZero}, add_to_cash_flow : BOOLEAN]

InitEvents ==
    /\ base \in BaseModels
    /\ events \in {<<e>> : e \in HomePurchaseSet \cup ChildBirthSet
                                  \cup InheritanceSet}
    /\ work = [model |-> base, active |-> <<>>]
    /\ last = NoCall
    /\ inflation_rate = <<>>
    /\ terms = NoTerms
    /\ inst = NoInstrument
    /\ target_year = YearBase
    /\ out = NoOutput

\* HomePurchase.apply on the lists of work.model
ApplyHomePurchase ==
    LET e == events[1]
    IN  /\ last.op = "none"
        /\ e.kind = "HomePurchase"
        /\ work' = [model |-> IF ApplyRaises(e)
                              THEN HomePurchaseApplyUntilRaise(e, work.model)
                              ELSE HomePurchaseApply(e, work.model),
                    active |-> <<e>>]
        /\ last' = Call("apply", e.start_year, e.start_year,
                        IF ApplyRaises(e) THEN "raised" ELSE "returned",
                        <<>>, <<>>)
        /\ UNCHANGED <<base, events, inflation_rate, terms,
                       inst, target_year, out>>

\* ChildBirth.apply on the lists of work.model
ApplyChildBirth ==
    LET e == events[1]
    IN  /\ last.op = "none"
        /\ e.kind = "ChildBirth"
        /\ work' = [model |-> ChildBirthApply(e, work.model),
                    active |-> <<e>>]
        /\ last' = Call("apply", e.start_year, e.start_year, "returned",
                        <<>>, <<>>)
        /\ UNCHANGED <<base, events, inflation_rate, terms,
                       inst, target_year, out>>

\* Inheritance.apply on the lists of work.model
ApplyInheritance ==
    LET e == events[1]
    IN  /\ last.op = "none"
        /\ e.kind = "Inheritance"
        /\ work' = [model |-> InheritanceApply(e, work.model),
                    active |-> <<e>>]
        /\ last' = Call("apply", e.start_year, e.start_year, "returned",
                        <<>>, <<>>)
        /\ UNCHANGED <<base, events, inflation_rate, terms,
                       inst, target_year, out>>

NextEvents == ApplyHomePurchase \/ ApplyChildBirth \/ ApplyInheritance

SpecEvents == InitEvents /\ [][NextEvents]_vars

(***************************************************************************)
(* Properties of the instrument formulas (checked under SpecFormulas).     *)
(***************************************************************************)
\* a HomeLoan with a positive principal and an interest rate >= 0
IsOrdinaryLoan ==
    /\ inst.kind = "HomeLoan"
    /\ RLt(RZero, inst.initial_value)
    /\ RLe(RZero, inst.interest_rate)
    /\ out.status = "returned"

IsLoanWithTerm == IsOrdinaryLoan /\ inst.term_years >= 1

\* C6: for a HomeLoan with initial_value > 0 and term_years >= 1,
\* predict(start_year + term_years - 1) > 0 and
\* predict(start_year + term_years) = 0 (stated for interest rates >= 0).
C6_PayoffExactlyAtTerm ==
    IsLoanWithTerm =>
        /\ target_year = inst.start_year + inst.term_years - 1
              => RLt(RZero, out.value)
        /\ target_year = inst.start_year + inst.term_years
              => out.value = RZero

\* C7: for a HomeLoan with term_years > 1, predict(start_year) equals
\* initial_value (stated for a positive principal and interest rates >= 0).
C7_FirstYearIsInitialValue ==
    ( /\ IsOrdinaryLoan
      /\ inst.term_years > 1
      /\ target_year = inst.start_year )
    => out.value = inst.initial_value

\* predict(y') = 0 for every later year y' (a call that raises returns nothing)
StaysZeroAfter(l, y) ==
    \A y2 \in TargetYears :
        (y2 > y /\ ~LiabilityPredictRaises(l, y2))
            => LiabilityPredict(l, y2) = RZero

NonNegativeAndNoResurrection ==
    /\ RLe(RZero, out.value)
    /\ (out.value = RZero /\ target_year >= inst.start_year)
           => StaysZeroAfter(inst, target_year)

\* C8 as stated: for every liability with initial_value >= 0 and every year
\* y, predict(y) >= 0, and once predict(y) = 0 for a y >= start_year it is 0
\* for every later year.
C8_AsStated ==
    ( /\ inst.kind \in LiabilityKinds
      /\ RLe(RZero, inst.initial_value)
      /\ out.status = "returned" )
    => NonNegativeAndNoResurrection

\* C8, amended: the same for every HomeLoan with interest_rate > -1 and every
\* OtherLiability with annual_repayment >= 0 (initial_value >= 0 in both).
C8_NonNegativeNoResurrection ==
    ( /\ inst.kind \in LiabilityKinds
      /\ RLe(RZero, inst.initial_value)
      /\ inst.kind = "HomeLoan" => RLt(R(-1), inst.interest_rate)
      /\ inst.kind = "OtherLiability" => RLe(RZero, inst.annual_repayment)
      /\ out.status = "returned" )
    => NonNegativeAndNoResurrection

\* an OtherLiability paid off early: the truncated year returned 0
C8_Witness ==
    /\ inst.kind = "OtherLiability"
    /\ RLt(RZero, inst.initial_value)
    /\ RLt(RZero, inst.annual_repayment)
    /\ out.status = "returned"
    /\ target_year > inst.start_year
    /\ out.value = RZero

\* C9: for every asset variant, predict(y) = 0 for y < start_year and
\* predict(start_year) = initial_value.
C9_AssetInception ==
    (inst.kind \in AssetKinds /\ out.status = "returned") =>
        /\ target_year < inst.start_year => out.value = RZero
        /\ target_year = inst.start_year => out.value = inst.initial_value

\* a Savings with a contribution and a rate of -100% predicted at inception
C9_Witness ==
    /\ inst.kind = "Savings"
    /\ inst.initial_value # RZero
    /\ inst.annual_contribution # RZero
    /\ inst.interest_rate = R(-1)
    /\ out.status = "returned"
    /\ target_year = inst.start_year
    /\ out.value = inst.initial_value

\* C10: an Income or Expense is 0 before start_year and after end_year (when
\* set); the end year is inclusive: with amount # 0 and annual_rate > -1 the
\* value is non-zero in every year from start_year to end_year (or onwards).
C10_ActiveRange ==
    (inst.kind \in {"Income", "Expense"} /\ out.status = "returned") =>
        /\ target_year < inst.start_year => out.value = RZero
        /\ (inst.end_year # <<>> /\ target_year > inst.end_year[1])
              => out.value = RZero
        /\ ( /\ inst.amount # RZero
             /\ RLt(R(-1), inst.annual_rate)
             /\ target_year >= inst.start_year
             /\ inst.end_year # <<>> => target_year <= inst.end_year[1] )
           => out.value # RZero

\* a one-year Expense (end_year = start_year) predicted in its only year
C10_Witness ==
    /\ inst.kind = "Expense"
    /\ inst.amount = R(100)
    /\ inst.end_year = <<inst.start_year>>
    /\ out.status = "returned"
    /\ target_year = inst.start_year
    /\ out.value = R(100)

(***************************************************************************)
(* Properties of the orchestrator (checked under Spec).                    *)
(***************************************************************************)
ModelReturned == last.op = "model" /\ last.status = "returned"

\* C1: a model call that repeats the arguments of the model call before it
\* returns the same two projection sequences, and no model call changes the
\* base model's asset, liability, income and expense lists.
C1_ModelIdempotent ==
    [][ /\ base' = base
        /\ (last.op = "model" /\ last'.op = "model" /\ last'.again)
              => /\ last'.status = last.status
                 /\ last'.bs = last.bs
                 /\ last'.cf = last.cf ]_vars

\* a repeated model call on the sample base whose events appended to the
\* working copy
C1_Witness ==
    /\ ModelReturned
    /\ last.again
    /\ base = SampleBase
    /\ Len(work.active) >= 1
    /\ Len(work.model.expenses) > Len(base.expenses)
    /\ Len(last.bs) >= 2

\* the elements of s after the first n are in ascending start_year order
AscendingFrom(s, n) ==
    \A i \in (n + 1) .. Len(s) : \A j \in (n + 1) .. Len(s) :
        i < j => s[i].start_year <= s[j].start_year

\* C2: the events are applied in ascending start_year order whatever their
\* order in the events list: in each working list the appended instruments
\* (each carries its event's start_year) come in ascending start_year order.
C2_AppliedInYearOrder ==
    ModelReturned =>
        /\ AscendingFrom(work.active, 0)
        /\ AscendingFrom(work.model.assets, Len(base.assets))
        /\ AscendingFrom(work.model.liabilities, Len(base.liabilities))
        /\ AscendingFrom(work.model.incomes, Len(base.incomes))
        /\ AscendingFrom(work.model.expenses, Len(base.expenses))

\* two events listed latest first, both applied, earliest first
C2_Witness ==
    /\ ModelReturned
    /\ Len(events) = 2
    /\ events[1].start_year > events[2].start_year
    /\ work.active = <<events[2], events[1]>>
    /\ Len(work.model.expenses) >= Len(base.expenses) + 2

Count(v, s) == Cardinality({i \in 1 .. Len(s) : s[i] = v})

NotAfterEnd(e) == e.start_year <= last.end_year

\* C3: an event is applied, exactly once, iff its start_year <= end_year
\* (events before start_year included); an event after end_year is never
\* applied, and the projections are those of the model without it.
C3_AppliedIffNotAfterEnd ==
    ModelReturned =>
        /\ \A i \in 1 .. Len(events) :
              Count(events[i], work.active) =
                  IF NotAfterEnd(events[i]) THEN Count(events[i], events)
                  ELSE 0
        /\ Len(work.model.assets) - Len(base.assets) =
              Cardinality({i \in 1 .. Len(events) :
                  /\ NotAfterEnd(events[i])
                  /\ events[i].kind \in {"HomePurchase", "Inheritance"}})
        /\ Cardinality({i \in 1 .. Len(work.model.expenses) :
                  work.model.expenses[i].name = "Child related expenses"}) =
              Cardinality({i \in 1 .. Len(events) :
                  /\ NotAfterEnd(events[i])
                  /\ events[i].kind = "ChildBirth"})
        /\ LET kept == SelectSeq(events, NotAfterEnd)
               comps == ComponentsWithEvents(base, kept, last.start_year,
                                             last.end_year)
           IN  /\ last.bs = BsProjection(comps.model, last.start_year,
                                         last.end_year)
               /\ last.cf = CfProjection(comps.model, last.start_year,
                                         last.end_year)

\* one event before the range, applied, and one after it, left out
C3_Witness ==
    /\ ModelReturned
    /\ \E i \in 1 .. Len(events) : events[i].start_year < last.start_year
    /\ \E i \in 1 .. Len(events) : events[i].start_year > last.end_year
    /\ Len(work.active) = 1
    /\ work.active[1].start_year < last.start_year

(***************************************************************************)
(* Properties of the projection calls (checked under SpecProject) and of   *)
(* the inflation-adjustment pass (checked under SpecRealTerms).            *)
(***************************************************************************)
\* C4: a call of BalanceSheet.project, CashFlow.project or model with
\* end_year < start_year is rejected with a failure and produces no output.
C4_InvalidRangeRejected ==
    (last.op # "none" /\ last.end_year < last.start_year)
        => last.status = "raised"

\* C5: _add_real_terms fails whenever the inflation rate is <= -1, for every
\* input projection, the empty one included, and returns no records then;
\* for every rate > -1 it does not fail.
C5_RejectsImpossibleRate ==
    (terms.status # "none" /\ terms.rate # <<>>) =>
        /\ RLe(terms.rate, R(-1))
              => (terms.status = "ValueError" /\ terms.entries = <<>>)
        /\ RLt(R(-1), terms.rate) => terms.status = "returned"

(***************************************************************************)
(* Properties of the life events (checked under SpecEvents).               *)
(***************************************************************************)
\* the event's apply was called and returned
Applied(kind) ==
    /\ last.op = "apply"
    /\ last.status = "returned"
    /\ events[1].kind = kind

\* what the call appended to a list that held `before`
AppendedTo(before, after) == SubSeq(after, Len(before) + 1, Len(after))

\* the list still starts with what it held before the call
KeepsAll(before, after) ==
    /\ Len(after) >= Len(before)
    /\ SubSeq(after, 1, Len(before)) = before

Named(s, n) ==
    LET HasName(x) == x.name = n
    IN  SelectSeq(s, HasName)

\* the years in which an expense is active
ActiveYears(x) == {y \in TargetYears : ExpenseIsActive(x, y)}

OneChildExpense ==
    LET e == events[1]
        m == work.model
        x == AppendedTo(base.expenses, m.expenses)
    IN  /\ m.assets = base.assets
        /\ m.liabilities = base.liabilities
        /\ m.incomes = base.incomes
        /\ KeepsAll(base.expenses, m.expenses)
        /\ Len(x) = 1
        /\ x[1].kind = "Expense"
        /\ x[1].start_year = e.start_year
        /\ x[1].end_year =
                <<IF e.years_of_expense <= 0 THEN e.start_year
                  ELSE e.start_year + e.years_of_expense - 1>>

\* the expense ChildBirth.apply appended
ChildExpense ==
    work.model.expenses[Len(work.model.expenses)]

\* C12 as stated: ChildBirth.apply appends exactly one Expense and nothing
\* else, starting at the event's start_year, with end_year = start_year +
\* years_of_expense - 1 clamped to start_year when years_of_expense <= 0,
\* and the number of years in which it is active equals years_of_expense.
C12_AsStated ==
    Applied("ChildBirth") =>
        /\ OneChildExpense
        /\ Cardinality(ActiveYears(ChildExpense)) =
                events[1].years_of_expense

\* C12: ChildBirth.apply appends exactly one Expense and nothing else,
\* starting at the event's start_year, with end_year = start_year +
\* years_of_expense - 1 clamped to start_year when years_of_expense <= 0;
\* it is active in exactly the years start_year .. end_year, which are
\* years_of_expense years when years_of_expense >= 1 and one year (the
\* event's year) when years_of_expense <= 0.
C12_ChildBirthAppends ==
    Applied("ChildBirth") =>
        /\ OneChildExpense
        /\ ActiveYears(ChildExpense) =
                events[1].start_year .. ChildExpense.end_year[1]
        /\ Cardinality(ActiveYears(ChildExpense)) =
                (IF events[1].years_of_expense >= 1
                 THEN events[1].years_of_expense ELSE 1)

\* a birth with no year of expense was applied to the lists of the sample
\* model, and its expense is active in the event's year
C12_Witness ==
    /\ Applied("ChildBirth")
    /\ base = SampleBase
    /\ events[1].years_of_expense <= 0
    /\ ActiveYears(ChildExpense) = {events[1].start_year}

(***************************************************************************)
(* Properties of the projections (checked under SpecProject).              *)
(***************************************************************************)
\* the records hold the years start_year, start_year + 1, ..., end_year
\* once each, in ascending order
YearsInOrder(records, start_year, end_year) ==
    /\ Len(records) = end_year - start_year + 1
    /\ \A i \in 1 .. Len(records) : records[i].year = start_year + i - 1

\* C13: for start_year <= end_year, the balance-sheet sequence returned by
\* BalanceSheet.project or model and the cash-flow sequence returned by
\* CashFlow.project or model hold exactly end_year - start_year + 1 records
\* whose years are start_year, start_year + 1, ..., end_year in ascending
\* order; every balance-sheet record has net_worth = total_assets -
\* total_liabilities and every cash-flow record net_flow = inflow - outflow.
C13_ProjectionRecords ==
    (last.status = "returned" /\ last.start_year <= last.end_year) =>
        /\ last.op \in {"model", "bs_project"} =>
                /\ YearsInOrder(last.bs, last.start_year, last.end_year)
                /\ \A i \in 1 .. Len(last.bs) :
                        last.bs[i].net_worth =
                            RSub(last.bs[i].total_assets,
                                 last.bs[i].total_liabilities)
        /\ last.op \in {"model", "cf_project"} =>
                /\ YearsInOrder(last.cf, last.start_year, last.end_year)
                /\ \A i \in 1 .. Len(last.cf) :
                        last.cf[i].net_flow =
                            RSub(last.cf[i].inflow, last.cf[i].outflow)

\* model returned the projections of the sample model with an event over
\* a range of two years or more, with a nonzero net worth and net flow
C13_Witness ==
    /\ last.op = "model"
    /\ last.status = "returned"
    /\ last.start_year < last.end_year
    /\ base = SampleBase
    /\ events # <<>>
    /\ Len(last.bs) >= 2
    /\ Len(last.cf) >= 2
    /\ last.bs[2].net_worth # RZero
    /\ last.cf[2].net_flow # RZero

(***************************************************************************)
(* Order of the events of one year (checked under Spec).                   *)
(***************************************************************************)
\* the elements of s (events or instruments) whose start_year is y
StartingIn(s, y) ==
    LET StartsInY(x) == x.start_year = y
    IN  SelectSeq(s, StartsInY)

\* the events of the input list that model applies, in input order
AppliedOfInput ==
    LET IsApplied(e) == NotAfterEnd(e)
    IN  SelectSeq(events, IsApplied)

\* the instruments the events of evs append to one list (assets,
\* liabilities, incomes or expenses), event after event
RECURSIVE InstrumentsOf(_, _)
InstrumentsOf(evs, list) ==
    IF evs = <<>> THEN <<>>
    ELSE Apply(Head(evs), NoModel)[list] \o InstrumentsOf(Tail(evs), list)

\* C14: the applied events that share a start_year are applied in the order
\* in which they appear in the events list, so in every working list the
\* instruments appended for one year are those of that year's events in
\* input order; and every working list keeps the base model's instruments,
\* in their original order, as a prefix before the event-derived ones.
C14_TiesInInputOrder ==
    ModelReturned =>
        /\ \A y \in Years :
                /\ StartingIn(work.active, y) = StartingIn(AppliedOfInput, y)
                /\ \A list \in {"assets", "liabilities",
                                 "incomes", "expenses"} :
                        StartingIn(AppendedTo(base[list], work.model[list]), y)
                            = InstrumentsOf(StartingIn(AppliedOfInput, y),
                                            list)
        /\ \A list \in {"assets", "liabilities", "incomes", "expenses"} :
                /\ KeepsAll(base[list], work.model[list])
                /\ Len(work.model[list]) =
                        Len(base[list]) + Len(InstrumentsOf(work.active, list))

\* the birth and the purchase of one year, listed in this order, were
\* applied to the sample model: the child expense comes right after the
\* base model's expenses and before the purchase's
C14_Witness ==
    /\ ModelReturned
    /\ base = SampleBase
    /\ Len(events) >= 2
    /\ \E i \in 1 .. Len(events) - 1 :
            /\ events[i] = ChildEvent
            /\ events[i + 1] = HomeEvent
    /\ Len(work.active) >= 2
    /\ work.active[1] = ChildEvent
    /\ work.active[2] = HomeEvent
    /\ work.model.expenses[Len(base.expenses) + 1].name
            = "Child related expenses"
    /\ work.model.expenses[Len(base.expenses) + 2].name = "Deposit"

====
